---- MODULE Spec2Model ----
(***************************************************************************)
(* stream-httparse: the HTTP/1.x message model (Method, StatusCode,        *)
(* HeaderKey, HeaderValue, Headers, Request, Response) and the incremental *)
(* request/response parsers.                                               *)
(*                                                                         *)
(* Texts and byte slices are sequences of bytes; a byte is written as a    *)
(* one-character string, and the two bytes of the UTF-8 encoding of a      *)
(* two-byte character as "0xC3" and "0xA9".                                *)
(***************************************************************************)
EXTENDS Integers, Sequences, FiniteSets, TLC

VARIABLES
  input,     \* the stream the transport delivers: its bytes, and what they are
  parser,    \* the parser instance
  pos,       \* how many bytes of the stream the parser has consumed
  sum,       \* consumed, summed over the feed calls up to the first done = true
  last,      \* the latest call on the parser and what it returned
  doneSeen,  \* whether a feed call has returned done = true
  split,     \* whether a feed call has ended strictly inside the message
  later,     \* how many feed calls were made after done = true was returned
  hdrs,      \* a Headers collection a caller builds with set/append/remove
  hlast,     \* the latest call on hdrs, and the collection before it
  call,      \* a call of a function of the message types: arguments and result
  resp       \* a Response a caller builds with add_header/set_body

vars == <<input, parser, pos, sum, last, doneSeen, split, later, hdrs, hlast, call, resp>>

(***************************************************************************)
(* Bounds of the model.                                                    *)
(***************************************************************************)
MaxTrail == 2
MaxFuzzLen == 3
MaxHeaders == 3
MaxFeed == 3
MaxLater == 2
MaxKeyLen == 2
MaxRawChars == 3
MaxPow == 7
MaxMsgHeaders == 2

(***************************************************************************)
(* Bytes and texts.                                                        *)
(***************************************************************************)
CR == "\r"
LF == "\n"
SP == " "
CRLF == <<CR, LF>>

UpperCase == <<"A","B","C","D","E","F","G","H","I","J","K","L","M",
               "N","O","P","Q","R","S","T","U","V","W","X","Y","Z">>
LowerCase == <<"a","b","c","d","e","f","g","h","i","j","k","l","m",
               "n","o","p","q","r","s","t","u","v","w","x","y","z">>
Digits == <<"0","1","2","3","4","5","6","7","8","9">>

\* The (i+1)-th byte of a UTF-8 text is a continuation byte (10xxxxxx).
IsContinuationByte(b) == b \in {"0xA9"}

\* str::is_char_boundary: offset 0, the end, or a byte that starts a character.
IsCharBoundary(raw, i) ==
  \/ i = 0
  \/ i = Len(raw)
  \/ (i < Len(raw) /\ ~IsContinuationByte(raw[i + 1]))

RECURSIVE IndexOf(_, _, _)
IndexOf(seq, x, i) ==
  IF i > Len(seq) THEN 0
  ELSE IF seq[i] = x THEN i
  ELSE IndexOf(seq, x, i + 1)

\* Case folding of one byte, as caseless::default_case_fold_str does on ASCII.
FoldByte(b) ==
  LET i == IndexOf(UpperCase, b, 1) IN IF i = 0 THEN b ELSE LowerCase[i]

FoldText(s) == [i \in 1..Len(s) |-> FoldByte(s[i])]

caseless_match(a, b) == FoldText(a) = FoldText(b)


(***************************************************************************)
(* Method (src/src/method.rs).  An Option is modelled by the string "None" *)
(* or the variant's name.                                                  *)
(***************************************************************************)
None == "None"

MethodParseArms ==
  << <<<<"O","P","T","I","O","N","S">>, "OPTIONS">>,
     <<<<"G","E","T">>, "GET">>,
     <<<<"H","E","A","D">>, "HEAD">>,
     <<<<"P","O","S","T">>, "POST">>,
     <<<<"P","U","T">>, "PUT">>,
     <<<<"D","E","L","E","T","E">>, "DELETE">>,
     <<<<"T","R","A","C","E">>, "TRACE">>,
     <<<<"C","O","N","N","E","C","T">>, "CONNECT">> >>

MethodSerializeArms ==
  << <<"OPTIONS", <<"O","P","T","I","O","N","S">> >>,
     <<"GET", <<"G","E","T">> >>,
     <<"HEAD", <<"H","E","A","D">> >>,
     <<"POST", <<"P","O","S","T">> >>,
     <<"PUT", <<"P","U","T">> >>,
     <<"DELETE", <<"D","E","L","E","T","E">> >>,
     <<"TRACE", <<"T","R","A","C","E">> >>,
     <<"CONNECT", <<"C","O","N","N","E","C","T">> >> >>

Methods == {MethodSerializeArms[i][1] : i \in DOMAIN MethodSerializeArms}

\* The first arm of a match whose pattern equals x, 0 when only `_` matches.
RECURSIVE MatchArm(_, _, _)
MatchArm(arms, x, i) ==
  IF i > Len(arms) THEN 0
  ELSE IF arms[i][1] = x THEN i
  ELSE MatchArm(arms, x, i + 1)

\* Method::parse with the `"PUT"` arm left out.
Method_parse_short(raw_method) ==
  LET arms == SelectSeq(MethodParseArms, LAMBDA a : a[2] # "PUT")
      i == MatchArm(arms, raw_method, 1)
  IN IF i = 0 THEN None ELSE arms[i][2]

Method_parse(raw_method) ==
  LET i == MatchArm(MethodParseArms, raw_method, 1)
  IN IF i = 0 THEN None ELSE MethodParseArms[i][2]

Method_serialize(m) ==
  MethodSerializeArms[MatchArm(MethodSerializeArms, m, 1)][2]

(***************************************************************************)
(* StatusCode (src/src/status_code.rs).  parse slices raw[0..3], which     *)
(* panics when byte offset 3 is not a character boundary: the result is    *)
(* then "Panic".                                                           *)
(***************************************************************************)
Panic == "Panic"

StatusCodeParseArms ==
  << <<<<"1","0","0">>, "Continue">>,
     <<<<"1","0","1">>, "SwitchingProtocols">>,
     <<<<"2","0","0">>, "OK">>,
     <<<<"2","0","1">>, "Created">>,
     <<<<"2","0","2">>, "Accepted">>,
     <<<<"2","0","3">>, "NonAuthoritativeInformation">>,
     <<<<"2","0","4">>, "NoContent">>,
     <<<<"2","0","5">>, "ResetContent">>,
     <<<<"2","0","6">>, "PartialContent">>,
     <<<<"3","0","0">>, "MultipleChoices">>,
     <<<<"3","0","1">>, "MovedPermanently">>,
     <<<<"3","0","2">>, "Found">>,
     <<<<"3","0","3">>, "SeeOther">>,
     <<<<"3","0","4">>, "NotModified">>,
     <<<<"3","0","5">>, "UseProxy">>,
     <<<<"3","0","7">>, "TemporaryRedirect">>,
     <<<<"4","0","0">>, "BadRequest">>,
     <<<<"4","0","1">>, "Unauthorized">>,
     <<<<"4","0","2">>, "PaymentRequired">>,
     <<<<"4","0","3">>, "Forbidden">>,
     <<<<"4","0","4">>, "NotFound">>,
     <<<<"4","0","5">>, "MethodNotAllowed">>,
     <<<<"4","0","6">>, "NotAcceptable">>,
     <<<<"4","0","7">>, "ProxyAuthenticationRequired">>,
     <<<<"4","0","8">>, "RequestTimeOut">>,
     <<<<"4","0","9">>, "Conflict">>,
     <<<<"4","1","0">>, "Gone">>,
     <<<<"4","1","1">>, "LengthRequired">>,
     <<<<"4","1","2">>, "PreconditionFailed">>,
     <<<<"4","1","3">>, "RequestEntityTooLarge">>,
     <<<<"4","1","4">>, "RequestURITooLarge">>,
     <<<<"4","1","5">>, "UnsupportedMediaType">>,
     <<<<"4","1","6">>, "RequestedRangeNotSatisfiable">>,
     <<<<"4","1","7">>, "ExpectationFailed">>,
     <<<<"4","1","8">>, "ImATeapot">>,
     <<<<"5","0","0">>, "InternalServerError">>,
     <<<<"5","0","1">>, "NotImplemented">>,
     <<<<"5","0","2">>, "BadGateway">>,
     <<<<"5","0","3">>, "ServiceUnavailable">>,
     <<<<"5","0","4">>, "GatewayTimeout">>,
     <<<<"5","0","5">>, "HTTPVersionNotSupported">> >>

StatusCodeSerializeArms ==
  << <<"Continue", <<"1","0","0"," ","C","o","n","t","i","n","u","e">>>>,
     <<"SwitchingProtocols", <<"1","0","1"," ","S","w","i","t","c","h","i","n","g"," ","P","r","o","t","o","c","o","l","s">>>>,
     <<"OK", <<"2","0","0"," ","O","K">>>>,
     <<"Created", <<"2","0","1"," ","C","r","e","a","t","e","d">>>>,
     <<"Accepted", <<"2","0","2"," ","A","c","c","e","p","t","e","d">>>>,
     <<"NonAuthoritativeInformation", <<"2","0","3"," ","N","o","n","-","A","u","t","h","o","r","i","t","a","t","i","v","e"," ","I","n","f","o","r","m","a","t","i","o","n">>>>,
     <<"NoContent", <<"2","0","4"," ","N","o"," ","C","o","n","t","e","n","t">>>>,
     <<"ResetContent", <<"2","0","5"," ","R","e","s","e","t"," ","C","o","n","t","e","n","t">>>>,
     <<"PartialContent", <<"2","0","6"," ","P","a","r","t","i","a","l"," ","C","o","n","t","e","n","t">>>>,
     <<"MultipleChoices", <<"3","0","0"," ","M","u","l","t","i","p","l","e"," ","C","h","o","i","c","e","s">>>>,
     <<"MovedPermanently", <<"3","0","1"," ","M","o","v","e","d"," ","P","e","r","m","a","n","e","n","t","l","y">>>>,
     <<"Found", <<"3","0","2"," ","F","o","u","n","d">>>>,
     <<"SeeOther", <<"3","0","3"," ","S","e","e"," ","O","t","h","e","r">>>>,
     <<"NotModified", <<"3","0","4"," ","N","o","t"," ","M","o","d","i","f","i","e","d">>>>,
     <<"UseProxy", <<"3","0","5"," ","U","s","e"," ","P","r","o","x","y">>>>,
     <<"TemporaryRedirect", <<"3","0","7"," ","T","e","m","p","o","r","a","r","y"," ","R","e","d","i","r","e","c","t">>>>,
     <<"BadRequest", <<"4","0","0"," ","B","a","d"," ","R","e","q","u","e","s","t">>>>,
     <<"Unauthorized", <<"4","0","1"," ","U","n","a","u","t","h","o","r","i","z","e","d">>>>,
     <<"PaymentRequired", <<"4","0","2"," ","P","a","y","m","e","n","t"," ","R","e","q","u","i","r","e","d">>>>,
     <<"Forbidden", <<"4","0","3"," ","F","o","r","b","i","d","d","e","n">>>>,
     <<"NotFound", <<"4","0","4"," ","N","o","t"," ","F","o","u","n","d">>>>,
     <<"MethodNotAllowed", <<"4","0","5"," ","M","e","t","h","o","d"," ","N","o","t"," ","A","l","l","o","w","e","d">>>>,
     <<"NotAcceptable", <<"4","0","6"," ","N","o","t"," ","A","c","c","e","p","t","a","b","l","e">>>>,
     <<"ProxyAuthenticationRequired", <<"4","0","7"," ","P","r","o","x","y"," ","A","u","t","h","e","n","t","i","c","a","t","i","o","n"," ","R","e","q","u","i","r","e","d">>>>,
     <<"RequestTimeOut", <<"4","0","8"," ","R","e","q","u","e","s","t"," ","T","i","m","e","-","o","u","t">>>>,
     <<"Conflict", <<"4","0","9"," ","C","o","n","f","l","i","c","t">>>>,
     <<"Gone", <<"4","1","0"," ","G","o","n","e">>>>,
     <<"LengthRequired", <<"4","1","1"," ","L","e","n","g","t","h"," ","R","e","q","u","i","r","e","d">>>>,
     <<"PreconditionFailed", <<"4","1","2"," ","P","r","e","c","o","n","d","i","t","i","o","n"," ","F","a","i","l","e","d">>>>,
     <<"RequestEntityTooLarge", <<"4","1","3"," ","R","e","q","u","e","s","t"," ","E","n","t","i","t","y"," ","T","o","o"," ","L","a","r","g","e">>>>,
     <<"RequestURITooLarge", <<"4","1","4"," ","R","e","q","u","e","s","t","-","U","R","I"," ","T","o","o"," ","L","a","r","g","e">>>>,
     <<"UnsupportedMediaType", <<"4","1","5"," ","U","n","s","u","p","p","o","r","t","e","d"," ","M","e","d","i","a"," ","T","y","p","e">>>>,
     <<"RequestedRangeNotSatisfiable", <<"4","1","6"," ","R","e","q","u","e","s","t","e","d"," ","R","a","n","g","e"," ","N","o","t"," ","S","a","t","i","s","f","i","a","b","l","e">>>>,
     <<"ExpectationFailed", <<"4","1","7"," ","E","x","p","e","c","t","a","t","i","o","n"," ","F","a","i","l","e","d">>>>,
     <<"ImATeapot", <<"4","1","8"," ","I","'","m"," ","a"," ","T","e","a","p","o","t">>>>,
     <<"InternalServerError", <<"5","0","0"," ","I","n","t","e","r","n","a","l"," ","S","e","r","v","e","r"," ","E","r","r","o","r">>>>,
     <<"NotImplemented", <<"5","0","1"," ","N","o","t"," ","I","m","p","l","e","m","e","n","t","e","d">>>>,
     <<"BadGateway", <<"5","0","2"," ","B","a","d"," ","G","a","t","e","w","a","y">>>>,
     <<"ServiceUnavailable", <<"5","0","3"," ","S","e","r","v","i","c","e"," ","U","n","a","v","a","i","l","a","b","l","e">>>>,
     <<"GatewayTimeout", <<"5","0","4"," ","G","a","t","e","w","a","y"," ","T","i","m","e","-","o","u","t">>>>,
     <<"HTTPVersionNotSupported", <<"5","0","5"," ","H","T","T","P"," ","V","e","r","s","i","o","n"," ","N","o","t"," ","S","u","p","p","o","r","t","e","d">>>> >>

StatusCodes == {StatusCodeSerializeArms[i][1] : i \in DOMAIN StatusCodeSerializeArms}

StatusCode_parse(raw) ==
  IF Len(raw) < 3 THEN None
  ELSE IF ~IsCharBoundary(raw, 3) THEN Panic
  ELSE LET key == SubSeq(raw, 1, 3)
           i == MatchArm(StatusCodeParseArms, key, 1)
       IN IF i = 0 THEN None ELSE StatusCodeParseArms[i][2]

StatusCode_serialize(c) ==
  StatusCodeSerializeArms[MatchArm(StatusCodeSerializeArms, c, 1)][2]

(***************************************************************************)
(* HeaderKey and HeaderValue (src/src/header/key.rs, value.rs).            *)
(***************************************************************************)
HeaderKey_StrRef(t) == [form |-> "StrRef", text |-> t]
HeaderKey_Str(t) == [form |-> "Str", text |-> t]

HeaderKey_as_ref(k) == k.text

\* HeaderKey equality as a derived PartialEq: same variant, same text.
HeaderKey_eq_derived(a, b) == a = b

HeaderKey_eq(a, b) == caseless_match(HeaderKey_as_ref(a), HeaderKey_as_ref(b))

\* The value of a byte (ASCII; the two bytes of the two-byte character).
ByteValues ==
  [b \in {SP, CR, LF, ":", "/", "-", ".", ";", "0xC3", "0xA9"} |->
     CASE b = SP -> 32 [] b = CR -> 13 [] b = LF -> 10 [] b = ":" -> 58
       [] b = "/" -> 47 [] b = "-" -> 45 [] b = "." -> 46 [] b = ";" -> 59
       [] b = "0xC3" -> 195 [] b = "0xA9" -> 169]
ByteValue(b) ==
  IF IndexOf(UpperCase, b, 1) # 0 THEN 64 + IndexOf(UpperCase, b, 1)
  ELSE IF IndexOf(LowerCase, b, 1) # 0 THEN 96 + IndexOf(LowerCase, b, 1)
  ELSE IF IndexOf(Digits, b, 1) # 0 THEN 47 + IndexOf(Digits, b, 1)
  ELSE ByteValues[b]

\* str::cmp: the lexicographic order of the bytes.
RECURSIVE str_cmp(_, _, _)
str_cmp(s, t, i) ==
  IF i > Len(s) /\ i > Len(t) THEN "Equal"
  ELSE IF i > Len(s) THEN "Less"
  ELSE IF i > Len(t) THEN "Greater"
  ELSE IF ByteValue(s[i]) < ByteValue(t[i]) THEN "Less"
  ELSE IF ByteValue(s[i]) > ByteValue(t[i]) THEN "Greater"
  ELSE str_cmp(s, t, i + 1)

HeaderKey_cmp(a, b) == str_cmp(HeaderKey_as_ref(a), HeaderKey_as_ref(b), 1)

HeaderKey_serialize(k, buf) == buf \o k.text

HeaderValue_StrRef(t) == [form |-> "StrRef", text |-> t, n |-> 0]
HeaderValue_Str(t) == [form |-> "Str", text |-> t, n |-> 0]
HeaderValue_NumberUsize(n) == [form |-> "NumberUsize", text |-> <<>>, n |-> n]

\* usize::to_string: the decimal digits of n.
RECURSIVE usize_to_string(_)
usize_to_string(n) ==
  IF n < 10 THEN <<Digits[n + 1]>>
  ELSE Append(usize_to_string(n \div 10), Digits[(n % 10) + 1])

HeaderValue_serialize(v, buf) ==
  IF v.form = "NumberUsize" THEN buf \o usize_to_string(v.n) ELSE buf \o v.text

\* Option<&HeaderValue>::None, in the shape of a HeaderValue.
HeaderValue_None == [form |-> "None", text |-> <<>>, n |-> 0]

\* try_as_str_ref gives None for a number, and eq_ignore_case is then false.
\* eq_ignore_case comparing the texts byte for byte.
HeaderValue_eq_case(a, b) ==
  IF a.form = "NumberUsize" THEN FALSE
  ELSE IF b.form = "NumberUsize" THEN FALSE
  ELSE a.text = b.text

HeaderValue_eq_ignore_case(a, b) ==
  IF a.form = "NumberUsize" THEN FALSE
  ELSE IF b.form = "NumberUsize" THEN FALSE
  ELSE caseless_match(a.text, b.text)

RECURSIVE NumberLength(_, _)
NumberLength(tmp, res) ==
  IF tmp < 10 THEN res
  ELSE IF tmp < 100 THEN res + 1
  ELSE IF tmp < 1000 THEN res + 2
  ELSE IF tmp < 10000 THEN res + 3
  ELSE NumberLength(tmp \div 10000, res + 4)

\* HeaderValue::length counting the digits from 0.
HeaderValue_length_from_zero(v) ==
  IF v.form = "NumberUsize" THEN NumberLength(v.n, 0) ELSE Len(v.text)

HeaderValue_length(v) ==
  IF v.form = "NumberUsize" THEN NumberLength(v.n, 1) ELSE Len(v.text)

(***************************************************************************)
(* Header and Headers (src/src/header.rs, src/src/headers.rs).             *)
(***************************************************************************)
Header(k, v) == [key |-> k, value |-> v]

\* Header equality as a derived PartialEq: key and value.
Header_eq_derived(a, b) == HeaderKey_eq(a.key, b.key) /\ a.value = b.value

Header_eq(a, b) == HeaderKey_eq(a.key, b.key)

\* Header::serialize writing ":" where the code writes ": ".
Header_serialize_tight(h, buf) ==
  HeaderValue_serialize(h.value, HeaderKey_serialize(h.key, buf) \o <<":">>) \o CRLF

Header_serialize(h, buf) ==
  HeaderValue_serialize(h.value, HeaderKey_serialize(h.key, buf) \o <<":", " ">>) \o CRLF

Headers_new == [headers |-> <<>>, max_value_length |-> 0]

\* Vec::remove(index), index counted from 1 here.
Vec_remove(v, index) == SubSeq(v, 1, index - 1) \o SubSeq(v, index + 1, Len(v))

\* Option<usize>: 0 is None, i is Some(i - 1).
RECURSIVE FindFrom(_, _, _)
FindFrom(hs, key, i) ==
  IF i > Len(hs) THEN 0
  ELSE IF HeaderKey_eq(hs[i].key, key) THEN i
  ELSE FindFrom(hs, key, i + 1)

\* Headers::find returning the last entry that matches.
RECURSIVE FindBack(_, _, _)
FindBack(hs, key, i) ==
  IF i = 0 THEN 0
  ELSE IF HeaderKey_eq(hs[i].key, key) THEN i
  ELSE FindBack(hs, key, i - 1)
Headers_find_last(h, key) == FindBack(h.headers, key, Len(h.headers))

Headers_find(h, key) == FindFrom(h.headers, key, 1)

\* Headers::set without the removal of the entry found.
Headers_set_keep(h, key, value) ==
  LET n_value_length == HeaderValue_length(value)
  IN [headers |-> Append(h.headers, Header(key, value)),
      max_value_length |-> IF n_value_length > h.max_value_length
                           THEN n_value_length ELSE h.max_value_length]

Headers_set(h, key, value) ==
  LET index == Headers_find(h, key)
      kept == IF index # 0 THEN Vec_remove(h.headers, index) ELSE h.headers
      n_value_length == HeaderValue_length(value)
  IN [headers |-> Append(kept, Header(key, value)),
      max_value_length |-> IF n_value_length > h.max_value_length
                           THEN n_value_length ELSE h.max_value_length]

\* Headers::append replacing an entry with an equal key, as set does.
Headers_append_dedup(h, key, value) ==
  LET index == Headers_find(h, key)
      kept == IF index # 0 THEN Vec_remove(h.headers, index) ELSE h.headers
      n_value_length == HeaderValue_length(value)
  IN [headers |-> Append(kept, Header(key, value)),
      max_value_length |-> IF n_value_length > h.max_value_length
                           THEN n_value_length ELSE h.max_value_length]

\* Headers::append without the update of max_value_length.
Headers_append_nomax(h, key, value) ==
  [headers |-> Append(h.headers, Header(key, value)),
   max_value_length |-> h.max_value_length]

Headers_append(h, key, value) ==
  LET n_value_length == HeaderValue_length(value)
  IN [headers |-> Append(h.headers, Header(key, value)),
      max_value_length |-> IF n_value_length > h.max_value_length
                           THEN n_value_length ELSE h.max_value_length]

\* Headers::remove deleting every entry that matches.
Headers_remove_all(h, key) ==
  [h EXCEPT !.headers = SelectSeq(h.headers, LAMBDA e : ~HeaderKey_eq(e.key, key))]

Headers_remove(h, key) ==
  LET index == Headers_find(h, key)
  IN IF index # 0 THEN [h EXCEPT !.headers = Vec_remove(h.headers, index)] ELSE h

\* Headers::get reading the entry before the one found.
Headers_get_before(h, key) ==
  LET index == Headers_find(h, key)
  IN IF index <= 1 THEN HeaderValue_None ELSE h.headers[index - 1].value

Headers_get(h, key) ==
  LET index == Headers_find(h, key)
  IN IF index = 0 THEN HeaderValue_None ELSE h.headers[index].value

RECURSIVE SerializeFrom(_, _, _)
SerializeFrom(hs, i, buf) ==
  IF i > Len(hs) THEN buf ELSE SerializeFrom(hs, i + 1, Header_serialize(hs[i], buf))

\* Headers::serialize writing the entries from the last to the first.
RECURSIVE SerializeBack(_, _, _)
SerializeBack(hs, i, buf) ==
  IF i = 0 THEN buf ELSE SerializeBack(hs, i - 1, Header_serialize(hs[i], buf))

Headers_serialize_reversed(h, buf) == SerializeBack(h.headers, Len(h.headers), buf)

Headers_serialize(h, buf) == SerializeFrom(h.headers, 1, buf)

\* The derived PartialEq of Headers: the Vec<Header> entry by entry with
\* Header's own equality, and max_value_length.
Headers_eq(a, b) ==
  /\ Len(a.headers) = Len(b.headers)
  /\ \A i \in 1..Len(a.headers) : Header_eq(a.headers[i], b.headers[i])
  /\ a.max_value_length = b.max_value_length

Headers_get_max_value_size(h) == h.max_value_length

Headers_get_header_count(h) == Len(h.headers)

(***************************************************************************)
(* Request and Response (src/src/request.rs, src/src/response.rs).         *)
(***************************************************************************)
StringContainer_Ref(t) == [form |-> "Ref", text |-> t]
StringContainer_Owned(t) == [form |-> "Owned", text |-> t]
StringContainer_as_ref(c) == c.text

\* StringContainer equality as a derived PartialEq: same variant, same text.
StringContainer_eq_derived(a, b) == a = b

StringContainer_eq(a, b) == StringContainer_as_ref(a) = StringContainer_as_ref(b)

s_Connection == <<"C","o","n","n","e","c","t","i","o","n">>
s_KeepAlive == <<"K","e","e","p","-","A","l","i","v","e">>
s_Chunked == <<"C","h","u","n","k","e","d">>
s_TransferEncoding ==
  <<"T","r","a","n","s","f","e","r","-","E","n","c","o","d","i","n","g">>
s_ContentLength == <<"C","o","n","t","e","n","t","-","L","e","n","g","t","h">>

Request_new(protocol, method, path, headers, body) ==
  [method |-> method, path |-> StringContainer_Ref(path), protocol |-> protocol,
   headers |-> headers, body |-> body]

Request_serialize(r) ==
  <<Headers_serialize(r.headers,
       Method_serialize(r.method) \o <<SP>> \o StringContainer_as_ref(r.path) \o <<SP>> \o r.protocol \o CRLF)
      \o CRLF,
    r.body>>

\* The derived PartialEq of Request.
Request_eq(a, b) ==
  /\ a.method = b.method
  /\ StringContainer_eq(a.path, b.path)
  /\ a.protocol = b.protocol
  /\ Headers_eq(a.headers, b.headers)
  /\ a.body = b.body

\* is_keep_alive comparing the value with "Keep-Alive" byte for byte.
Request_is_keep_alive_exact(r) ==
  LET value == Headers_get(r.headers, HeaderKey_StrRef(s_Connection))
  IN IF value = HeaderValue_None THEN FALSE
     ELSE value.form # "NumberUsize" /\ value.text = s_KeepAlive

Request_is_keep_alive(r) ==
  LET value == Headers_get(r.headers, HeaderKey_StrRef(s_Connection))
  IN IF value = HeaderValue_None THEN FALSE
     ELSE HeaderValue_eq_ignore_case(value, HeaderValue_StrRef(s_KeepAlive))

Request_set_path_ref(r, n_path) == [r EXCEPT !.path = StringContainer_Ref(n_path)]

Request_set_path_owned(r, n_path) == [r EXCEPT !.path = StringContainer_Owned(n_path)]

Response_new(protocol, status_code, headers, body) ==
  [status_code |-> status_code, protocol |-> protocol,
   headers |-> headers, body |-> body]

Response_serialize(r) ==
  <<Headers_serialize(r.headers,
       r.protocol \o <<SP>> \o StatusCode_serialize(r.status_code) \o CRLF)
      \o CRLF,
    r.body>>

\* response.add_header(key, value)
Response_add_header(r, key, value) ==
  [r EXCEPT !.headers = Headers_set(r.headers, key, value)]

\* response.set_body(n_body)
Response_set_body(r, n_body) ==
  Response_add_header([r EXCEPT !.body = n_body],
                      HeaderKey_StrRef(s_ContentLength),
                      HeaderValue_NumberUsize(Len(n_body)))

Response_is_chunked(r) ==
  LET value == Headers_get(r.headers, HeaderKey_StrRef(s_TransferEncoding))
  IN IF value = HeaderValue_None THEN FALSE
     ELSE HeaderValue_eq_ignore_case(value, HeaderValue_StrRef(s_Chunked))

\* The Response of a caller that has built none yet.
NoResponse == Response_new(<<>>, "OK", Headers_new, <<>>)

(***************************************************************************)
(* Chunk (src/src/chunk.rs).                                               *)
(***************************************************************************)
HexDigits == <<"0","1","2","3","4","5","6","7","8","9","a","b","c","d","e","f">>

\* format!("{:x}", n)
RECURSIVE usize_to_hex(_)
usize_to_hex(n) ==
  IF n < 16 THEN <<HexDigits[n + 1]>>
  ELSE Append(usize_to_hex(n \div 16), HexDigits[(n % 16) + 1])

Chunk_new(size, data) == [size |-> size, body |-> data]

\* Chunk::serialize writing the size in decimal.
Chunk_serialize_decimal(c, buf) ==
  buf \o usize_to_string(c.size) \o CRLF \o c.body \o CRLF

Chunk_serialize(c, buf) ==
  buf \o usize_to_hex(c.size) \o CRLF \o c.body \o CRLF

(***************************************************************************)
(* ParseError (src/src/streaming_parser/error.rs).                         *)
(***************************************************************************)
ParseError == {"MissingMethod", "MissingPath", "MissingProtocol",
               "MissingHeaders", "MissingStatusCode", "InvalidStatusCode"}

(***************************************************************************)
(* The incremental parsers ReqParser and RespParser.  Their source is not  *)
(* among the repository's files: the state machine below follows the       *)
(* specification's sections 3, 4.1 and 4.2.  The specification names no    *)
(* ParseError for a failure in the body stage (a bad chunk, or finish()    *)
(* before the body is complete): the operators below give Unspecified, and *)
(* the call that meets it reports any kind but MissingHeaders, which       *)
(* section 3 reserves.                                                     *)
(***************************************************************************)
Unspecified == "Unspecified"
BodyErrors == ParseError \ {"MissingHeaders"}
s_chunked == <<"c","h","u","n","k","e","d">>

Parser_new(k) ==
  [kind |-> k, state |-> "Start", sub |-> "", err |-> None,
   buffer |-> <<>>, scan_cursor |-> 0, consumed_cursor |-> 0,
   method |-> None, path |-> <<>>, protocol |-> <<>>, status_code |-> None,
   headers |-> Headers_new,
   mode |-> "None", remaining |-> 0,
   chunked |-> "ReadingSize", chunk_size |-> 0, chunk_digits |-> 0, chunk_ext |-> FALSE,
   body |-> <<>>]

Terminal(p) == p.state \in {"Done", "Failed"}

Fail(q, e) == [q EXCEPT !.state = "Failed", !.err = e]

\* The token being accumulated: the absorbed bytes from consumed_cursor on.
Token(p) == SubSeq(p.buffer, p.consumed_cursor + 1, Len(p.buffer))

\* Byte b completes a CRLF whose CR is the last byte of the token.
EndsLine(tok, b) == b = LF /\ Len(tok) >= 1 /\ tok[Len(tok)] = CR

WithoutCR(tok) == SubSeq(tok, 1, Len(tok) - 1)

RECURSIVE TrimLeft(_)
TrimLeft(s) == IF Len(s) > 0 /\ s[1] = SP THEN TrimLeft(Tail(s)) ELSE s

RECURSIVE TrimRight(_)
TrimRight(s) ==
  IF Len(s) > 0 /\ s[Len(s)] = SP THEN TrimRight(SubSeq(s, 1, Len(s) - 1)) ELSE s

Trim(s) == TrimLeft(TrimRight(s))

\* A text of decimal digits as a number, -1 when it is not one.
RECURSIVE ParseUsizeFrom(_, _, _)
ParseUsizeFrom(s, i, acc) ==
  IF i > Len(s) THEN acc
  ELSE LET d == IndexOf(Digits, s[i], 1)
       IN IF d = 0 THEN -1 ELSE ParseUsizeFrom(s, i + 1, acc * 10 + (d - 1))

ParseUsize(s) == IF Len(s) = 0 THEN -1 ELSE ParseUsizeFrom(s, 1, 0)

\* Consume dropping the bytes of the completed tokens from the buffer.
Consume_compact(q) ==
  [q EXCEPT !.buffer = <<>>, !.scan_cursor = 0, !.consumed_cursor = 0]

\* Start of the current token moves up to the scan cursor.
Consume(q) == [q EXCEPT !.consumed_cursor = q.scan_cursor]

\* Body selection that looks at Content-Length before Transfer-Encoding.
SelectBody_length_first(q) ==
  LET te == Headers_get(q.headers, HeaderKey_StrRef(s_TransferEncoding))
      cl == Headers_get(q.headers, HeaderKey_StrRef(s_ContentLength))
      n == IF cl.form = "NumberUsize" THEN cl.n
           ELSE IF cl.form = "None" THEN -1 ELSE ParseUsize(cl.text)
  IN IF n > 0
     THEN [Consume(q) EXCEPT !.state = "Body", !.sub = "", !.mode = "FixedLength",
                             !.remaining = n]
     ELSE IF n = 0
     THEN [Consume(q) EXCEPT !.state = "Done", !.sub = "", !.mode = "FixedLength"]
     ELSE IF te.form # "None" /\ HeaderValue_eq_ignore_case(te, HeaderValue_StrRef(s_chunked))
     THEN [Consume(q) EXCEPT !.state = "Body", !.sub = "", !.mode = "Chunked",
                             !.chunked = "ReadingSize"]
     ELSE [Consume(q) EXCEPT !.state = "Done", !.sub = "", !.mode = "None"]

\* Body selection, once the blank line that ends the headers is read.
SelectBody(q) ==
  LET te == Headers_get(q.headers, HeaderKey_StrRef(s_TransferEncoding))
      cl == Headers_get(q.headers, HeaderKey_StrRef(s_ContentLength))
      n == IF cl.form = "NumberUsize" THEN cl.n
           ELSE IF cl.form = "None" THEN -1 ELSE ParseUsize(cl.text)
  IN IF te.form # "None" /\ HeaderValue_eq_ignore_case(te, HeaderValue_StrRef(s_chunked))
     THEN [Consume(q) EXCEPT !.state = "Body", !.sub = "", !.mode = "Chunked",
                             !.chunked = "ReadingSize"]
     ELSE IF n > 0
     THEN [Consume(q) EXCEPT !.state = "Body", !.sub = "", !.mode = "FixedLength",
                             !.remaining = n]
     ELSE IF n = 0
     THEN [Consume(q) EXCEPT !.state = "Done", !.sub = "", !.mode = "FixedLength"]
     ELSE [Consume(q) EXCEPT !.state = "Done", !.sub = "", !.mode = "None"]

RequestLineStep(q, tok, b) ==
  CASE q.sub = "method" ->
         IF b = SP
         THEN LET m == Method_parse(tok)
              IN IF m = None THEN Fail(q, "MissingMethod")
                 ELSE [Consume(q) EXCEPT !.method = m, !.sub = "path"]
         ELSE IF EndsLine(tok, b)
         THEN IF Method_parse(WithoutCR(tok)) = None THEN Fail(q, "MissingMethod")
              ELSE Fail(q, "MissingPath")
         ELSE q
    [] q.sub = "path" ->
         IF b = SP
         THEN IF tok = <<>> THEN Fail(q, "MissingPath")
              ELSE [Consume(q) EXCEPT !.path = tok, !.sub = "protocol"]
         ELSE IF EndsLine(tok, b)
         THEN IF WithoutCR(tok) = <<>> THEN Fail(q, "MissingPath")
              ELSE Fail(q, "MissingProtocol")
         ELSE q
    [] OTHER ->
         IF EndsLine(tok, b)
         THEN IF WithoutCR(tok) = <<>> THEN Fail(q, "MissingProtocol")
              ELSE [Consume(q) EXCEPT !.protocol = WithoutCR(tok),
                                      !.state = "Headers", !.sub = ""]
         ELSE q

StatusLineStep(q, tok, b) ==
  CASE q.sub = "protocol" ->
         IF b = SP
         THEN IF tok = <<>> THEN Fail(q, "MissingProtocol")
              ELSE [Consume(q) EXCEPT !.protocol = tok, !.sub = "status-code"]
         ELSE IF EndsLine(tok, b)
         THEN IF WithoutCR(tok) = <<>> THEN Fail(q, "MissingProtocol")
              ELSE Fail(q, "MissingStatusCode")
         ELSE q
    [] OTHER ->
         IF EndsLine(tok, b)
         THEN IF WithoutCR(tok) = <<>> THEN Fail(q, "MissingStatusCode")
              ELSE LET c == StatusCode_parse(WithoutCR(tok))
                   IN IF c = Panic THEN [q EXCEPT !.state = "Panicked"]
                      ELSE IF c = None THEN Fail(q, "InvalidStatusCode")
                      ELSE [Consume(q) EXCEPT !.status_code = c,
                                              !.state = "Headers", !.sub = ""]
         ELSE q

\* The header state refusing a blank line that no header line precedes.
HeadersStep_needs_header(q, tok, b) ==
  IF ~EndsLine(tok, b) THEN q
  ELSE LET line == WithoutCR(tok)
           colon == IndexOf(line, ":", 1)
       IN IF line = <<>>
          THEN IF Len(q.headers.headers) = 0 THEN Fail(q, "MissingHeaders")
               ELSE SelectBody(q)
          ELSE IF colon = 0 THEN Fail(q, "MissingHeaders")
          ELSE [Consume(q) EXCEPT !.headers =
                  Headers_append(q.headers,
                    HeaderKey_StrRef(Trim(SubSeq(line, 1, colon - 1))),
                    HeaderValue_StrRef(TrimLeft(SubSeq(line, colon + 1, Len(line)))))]

HeadersStep(q, tok, b) ==
  IF ~EndsLine(tok, b) THEN q
  ELSE LET line == WithoutCR(tok)
           colon == IndexOf(line, ":", 1)
       IN IF line = <<>> THEN SelectBody(q)
          ELSE IF colon = 0 THEN Fail(q, "MissingHeaders")
          ELSE [Consume(q) EXCEPT !.headers =
                  Headers_append(q.headers,
                    HeaderKey_StrRef(Trim(SubSeq(line, 1, colon - 1))),
                    HeaderValue_StrRef(TrimLeft(SubSeq(line, colon + 1, Len(line)))))]

\* The chunked-body decoder (section 4.2).
ChunkedStep(q, tok, b) ==
  CASE q.chunked = "ReadingSize" ->
         IF b = CR
         THEN IF q.chunk_digits = 0 THEN Fail(q, Unspecified)
              ELSE [q EXCEPT !.chunked = "ReadingSizeCRLF"]
         ELSE IF q.chunk_ext THEN q
         ELSE IF b = ";" /\ q.chunk_digits > 0 THEN [q EXCEPT !.chunk_ext = TRUE]
         ELSE LET d == IndexOf(HexDigits, FoldByte(b), 1)
              IN IF d = 0 THEN Fail(q, Unspecified)
                 ELSE [q EXCEPT !.chunk_size = q.chunk_size * 16 + (d - 1),
                                !.chunk_digits = q.chunk_digits + 1]
    [] q.chunked = "ReadingSizeCRLF" ->
         IF b # LF THEN Fail(q, Unspecified)
         ELSE IF q.chunk_size = 0
         THEN [Consume(q) EXCEPT !.chunked = "ReadingTrailerOrEnd"]
         ELSE [Consume(q) EXCEPT !.chunked = "ReadingBody", !.remaining = q.chunk_size]
    [] q.chunked = "ReadingBody" ->
         [Consume(q) EXCEPT !.body = Append(q.body, b),
                            !.remaining = q.remaining - 1,
                            !.chunked = IF q.remaining = 1 THEN "ReadingBodyCRLF"
                                        ELSE "ReadingBody"]
    [] q.chunked = "ReadingBodyCRLF" ->
         IF tok = <<>> /\ b = CR THEN q
         ELSE IF tok = <<CR>> /\ b = LF
         THEN [Consume(q) EXCEPT !.chunked = "ReadingSize", !.chunk_size = 0,
                                 !.chunk_digits = 0, !.chunk_ext = FALSE]
         ELSE Fail(q, Unspecified)
    [] OTHER ->
         IF ~EndsLine(tok, b) THEN q
         ELSE IF WithoutCR(tok) = <<>>
         THEN [Consume(q) EXCEPT !.chunked = "Complete", !.state = "Done"]
         ELSE Consume(q)

BodyStep(q, tok, b) ==
  IF q.mode = "Chunked" THEN ChunkedStep(q, tok, b)
  ELSE [Consume(q) EXCEPT !.body = Append(q.body, b),
                          !.remaining = q.remaining - 1,
                          !.state = IF q.remaining = 1 THEN "Done" ELSE "Body"]

\* One byte absorbed by a parser that is not in a terminal state.
Step(p, b) ==
  LET tok == Token(p)
      q == [p EXCEPT !.buffer = Append(p.buffer, b),
                     !.scan_cursor = p.scan_cursor + 1,
                     !.state = IF p.state # "Start" THEN p.state
                               ELSE IF p.kind = "req" THEN "RequestLine" ELSE "StatusLine",
                     !.sub = IF p.state # "Start" THEN p.sub
                             ELSE IF p.kind = "req" THEN "method" ELSE "protocol"]
  IN CASE q.state = "RequestLine" -> RequestLineStep(q, tok, b)
       [] q.state = "StatusLine" -> StatusLineStep(q, tok, b)
       [] q.state = "Headers" -> HeadersStep(q, tok, b)
       [] OTHER -> BodyStep(q, tok, b)

\* The bytes of data are absorbed in order until data ends, the message is Done,
\* the parser has Failed, or a call into the message model panics.  Bytes after
\* the one that completes the message are left to the caller; a malformed
\* message has none to leave.
RECURSIVE FeedFrom(_, _, _)
FeedFrom(p, data, i) ==
  IF Terminal(p) \/ p.state = "Panicked" \/ i > Len(data)
  THEN [p |-> p, done |-> Terminal(p),
        consumed |-> IF p.state = "Failed" THEN Len(data) ELSE i - 1]
  ELSE FeedFrom(Step(p, data[i]), data, i + 1)

\* feed that starts every call at a fresh token, dropping the bytes of a token
\* the previous call left unfinished.
Parser_feed_restart(p, data) ==
  IF Terminal(p) THEN [p |-> p, done |-> TRUE, consumed |-> 0]
  ELSE FeedFrom(Consume(p), data, 1)

\* feed that reports the whole slice as consumed.
Parser_feed_greedy(p, data) ==
  IF Terminal(p) THEN [p |-> p, done |-> TRUE, consumed |-> 0]
  ELSE [FeedFrom(p, data, 1) EXCEPT !.consumed = Len(data)]

\* feed that starts on the next message once the parser is Done.
Parser_feed_rearm(p, data) ==
  IF p.state = "Failed" THEN [p |-> p, done |-> TRUE, consumed |-> 0]
  ELSE FeedFrom(IF p.state = "Done" THEN Parser_new(p.kind) ELSE p, data, 1)

\* feed(data) -> (done, consumed); a parser in a terminal state absorbs nothing
\* and returns (true, 0).
Parser_feed(p, data) ==
  IF Terminal(p) THEN [p |-> p, done |-> TRUE, consumed |-> 0]
  ELSE FeedFrom(p, data, 1)

\* The kind of incompleteness finish() reports: the stage that never completed.
StageError(p) ==
  CASE p.state = "Start" -> IF p.kind = "req" THEN "MissingMethod" ELSE "MissingProtocol"
    [] p.state = "RequestLine" ->
         IF p.sub = "method" THEN "MissingMethod"
         ELSE IF p.sub = "path" THEN "MissingPath" ELSE "MissingProtocol"
    [] p.state = "StatusLine" ->
         IF p.sub = "protocol" THEN "MissingProtocol" ELSE "MissingStatusCode"
    [] p.state = "Headers" -> "MissingHeaders"
    [] OTHER -> Unspecified

Ok(v) == [ok |-> TRUE, err |-> None, value |-> v]
Err(e) == [ok |-> FALSE, err |-> e, value |-> <<>>]

\* finish() -> Result<Message, ParseError>
Parser_finish(p) ==
  IF p.state = "Done"
  THEN IF p.kind = "req"
       THEN Ok(Request_new(p.protocol, p.method, p.path, p.headers, p.body))
       ELSE Ok(Response_new(p.protocol, p.status_code, p.headers, p.body))
  ELSE IF p.state = "Failed" THEN Err(p.err)
  ELSE Err(StageError(p))

(***************************************************************************)
(* The byte streams a transport delivers.                                  *)
(***************************************************************************)
DIFFERENT == <<"D","I","F","F","E","R","E","N","T">>
s_GET == <<"G","E","T">>
s_PUT == <<"P","U","T">>
s_HTTP11 == <<"H","T","T","P","/","1",".","1">>
s_H == <<"H">>
s_path == <<"/","x">>

RequestLine(m, path, proto) == m \o <<SP>> \o path \o <<SP>> \o proto \o CRLF
StatusLine(proto, status) == proto \o <<SP>> \o status \o CRLF
HeaderLine(k, v) == k \o <<":", SP>> \o v \o CRLF

\* Blocks of header lines: canonical ("Key: Value"), and not.
CanonicalHeaderBlocks ==
  { <<>>,
    HeaderLine(<<"k">>, <<"v">>),
    HeaderLine(<<"k">>, <<"v">>) \o HeaderLine(<<"K">>, <<"w">>) }
OtherHeaderBlocks ==
  { <<"k", ":", "v">> \o CRLF,
    <<"k", SP, ":", SP, SP, "v">> \o CRLF }

\* What follows the blank line, with the header lines that announce it.
\* [hdr, body, chunked]: chunked bodies are framed, the others are raw.
CanonicalBodies ==
  { [hdr |-> <<>>, body |-> <<>>],
    [hdr |-> HeaderLine(s_ContentLength, <<"2">>), body |-> <<"h", "i">>],
    [hdr |-> HeaderLine(s_ContentLength, <<"0">>), body |-> <<>>] }
\* Chunk bodies of n bytes, and the chunk lists a sender writes with
\* Chunk::serialize: none, one chunk, and two chunks with sizes that take the
\* hex digit "a" and two hex digits.
Data(n) == [i \in 1..n |-> Digits[((i - 1) % 10) + 1]]
ChunkLists ==
  { <<>>,
    <<Chunk_new(2, <<"h", "i">>)>>,
    <<Chunk_new(10, Data(10)), Chunk_new(16, Data(16))>> }

RECURSIVE SerializeChunks(_, _)
SerializeChunks(cs, buf) ==
  IF cs = <<>> THEN buf ELSE SerializeChunks(Tail(cs), Chunk_serialize(Head(cs), buf))

\* The chunks, then the zero-size chunk that ends the body.
ChunkedBodyOf(cs) ==
  [hdr |-> HeaderLine(s_TransferEncoding, s_chunked),
   body |-> SerializeChunks(Append(cs, Chunk_new(0, <<>>)), <<>>)]

ChunkedBodies ==
  { ChunkedBodyOf(cs) : cs \in ChunkLists }
  \cup
  { [hdr |-> HeaderLine(s_ContentLength, <<"2">>)
               \o HeaderLine(s_TransferEncoding, <<"C","h","u","n","k","e","d">>),
     body |-> <<"1">> \o CRLF \o <<"h">> \o CRLF \o <<"1", ";", "e">> \o CRLF \o <<"i">> \o CRLF
               \o <<"0">> \o CRLF \o <<"t", ":", "v">> \o CRLF \o CRLF] }

Message(line, block, b) == line \o block \o b.hdr \o CRLF \o b.body

CanonicalRequests ==
  { Message(RequestLine(s_GET, s_path, s_H), block, b) :
      block \in CanonicalHeaderBlocks, b \in CanonicalBodies }
  \cup { Message(RequestLine(s_PUT, <<"/">>, s_HTTP11), <<>>, [hdr |-> <<>>, body |-> <<>>]) }
\* A Content-Length that is no number: the message ends at the blank line.
NoLengthBody == [hdr |-> HeaderLine(s_ContentLength, <<"x">>), body |-> <<>>]

OtherRequests ==
  { Message(RequestLine(s_GET, s_path, s_H), block, [hdr |-> <<>>, body |-> <<>>]) :
      block \in OtherHeaderBlocks }
  \cup { Message(RequestLine(s_GET, s_path, s_H), <<>>, NoLengthBody) }
  \cup { Message(RequestLine(s_GET, s_path, s_H), <<>>, b) : b \in ChunkedBodies }

s_200_OK == <<"2","0","0",SP,"O","K">>
s_404_Not_Found == <<"4","0","4",SP,"N","o","t",SP,"F","o","u","n","d">>

CanonicalResponses ==
  { Message(StatusLine(s_H, s_200_OK), block, b) :
      block \in {<<>>, HeaderLine(<<"k">>, <<"v">>)}, b \in CanonicalBodies }
  \cup { Message(StatusLine(s_HTTP11, s_404_Not_Found), <<>>, [hdr |-> <<>>, body |-> <<>>]) }
OtherResponses ==
  { Message(StatusLine(s_H, st), <<>>, [hdr |-> <<>>, body |-> <<>>]) :
      st \in {<<"2","0","0">>, <<"2","0","0",SP,"F","i","n","e">>} }
  \cup { Message(StatusLine(s_H, s_200_OK), <<>>, b) : b \in ChunkedBodies }

\* Streams that violate the grammar, each with the ParseError the
\* specification names for its fault (Unspecified for a fault in the body).
MalformedRequests ==
  { <<<<"F","O","O",SP,"/","x",SP>> \o s_HTTP11 \o CRLF \o CRLF, "MissingMethod">>,
    <<<<"g","e","t",SP>>, "MissingMethod">>,
    <<s_GET \o <<SP, "/">> \o CRLF \o CRLF, "MissingProtocol">>,
    <<RequestLine(s_GET, s_path, s_H) \o <<"b","a","d">> \o CRLF \o CRLF, "MissingHeaders">>,
    <<RequestLine(s_GET, s_path, s_H) \o HeaderLine(<<"k">>, <<"v">>)
        \o <<"b","a","d">> \o CRLF \o CRLF, "MissingHeaders">>,
    <<RequestLine(s_GET, s_path, s_H) \o HeaderLine(s_TransferEncoding, s_chunked) \o CRLF
        \o <<"z">> \o CRLF, Unspecified>>,
    <<RequestLine(s_GET, s_path, s_H) \o HeaderLine(s_TransferEncoding, s_chunked) \o CRLF
        \o <<"1">> \o CRLF \o <<"h", "i">> \o CRLF, Unspecified>> }
MalformedResponses ==
  { <<s_H \o CRLF \o CRLF, "MissingStatusCode">>,
    <<StatusLine(s_H, <<"1","2","3">>) \o CRLF, "InvalidStatusCode">>,
    <<StatusLine(s_H, <<"2","0">>) \o CRLF, "InvalidStatusCode">>,
    <<StatusLine(s_H, <<"O","K">>) \o CRLF, "InvalidStatusCode">>,
    <<StatusLine(s_H, <<"1","2","0xC3","0xA9",SP,"O","K">>) \o CRLF, "InvalidStatusCode">>,
    <<StatusLine(s_H, s_200_OK) \o <<"b","a","d">> \o CRLF \o CRLF, "MissingHeaders">> }

\* Arbitrary bytes, as a fuzzer supplies them.
FuzzBytes == {"G", SP, CR, LF, ":"}
RECURSIVE SeqsUpTo(_, _)
SeqsUpTo(S, n) ==
  IF n = 0 THEN {<<>>}
  ELSE LET shorter == SeqsUpTo(S, n - 1)
       IN shorter \cup {Append(s, x) : s \in {t \in shorter : Len(t) = n - 1}, x \in S}
FuzzInputs == SeqsUpTo(FuzzBytes, MaxFuzzLen) \ {<<>>}

\* The start of a pipelined next message.
Trail(n) == SubSeq(s_GET \o <<SP>> \o s_path \o <<SP>>, 1, n)

\* class: "canonical" (the bytes are what serialize writes), "reason" (a
\* response whose reason phrase is not the one of its code), "spacing" (a header
\* line not written `Key: Value`), "chunked", "nolength" (a Content-Length
\* that is no number), "malformed" or "fuzz".
Stream(k, msg, n, class, fault) ==
  [kind |-> k, bytes |-> msg \o Trail(n), msgLen |-> Len(msg),
   wellFormed |-> class \in {"canonical", "reason", "spacing", "chunked"},
   class |-> class, fault |-> fault]

RequestClass(m) ==
  IF m \in CanonicalRequests THEN "canonical"
  ELSE IF \E b \in ChunkedBodies : m = Message(RequestLine(s_GET, s_path, s_H), <<>>, b)
  THEN "chunked"
  ELSE IF m = Message(RequestLine(s_GET, s_path, s_H), <<>>, NoLengthBody)
  THEN "nolength" ELSE "spacing"
ResponseClass(m) ==
  IF m \in CanonicalResponses THEN "canonical"
  ELSE IF \E b \in ChunkedBodies : m = Message(StatusLine(s_H, s_200_OK), <<>>, b)
  THEN "chunked" ELSE "reason"

Inputs ==
  { Stream("req", m, n, RequestClass(m), None) :
      m \in CanonicalRequests \cup OtherRequests, n \in 0..MaxTrail }
  \cup { Stream("resp", m, n, ResponseClass(m), None) :
      m \in CanonicalResponses \cup OtherResponses, n \in 0..MaxTrail }
  \cup { Stream("req", m[1], 0, "malformed", m[2]) : m \in MalformedRequests }
  \cup { Stream("resp", m[1], 0, "malformed", m[2]) : m \in MalformedResponses }
  \cup { Stream(k, m, 0, "fuzz", None) : k \in {"req", "resp"}, m \in FuzzInputs }

(***************************************************************************)
(* Spec: one parser instance fed a stream in slices.                       *)
(***************************************************************************)
NoCall == [op |-> "none", done |-> FALSE, left |-> 0, result |-> Err(None)]
NoValueCall == [op |-> "none"]
NoHeadersCall == [op |-> "none", key |-> HeaderKey_StrRef(<<>>),
                  value |-> HeaderValue_None, before |-> Headers_new]

Init ==
  /\ input \in Inputs
  /\ parser = Parser_new(input.kind)
  /\ pos = 0
  /\ sum = 0
  /\ last = NoCall
  /\ doneSeen = FALSE
  /\ split = FALSE
  /\ later = 0
  /\ hdrs = Headers_new
  /\ hlast = NoHeadersCall
  /\ call = NoValueCall
  /\ resp = NoResponse

\* The sizes of the next slice: a few bytes, or all the transport holds.
FeedSizes == LET held == Len(input.bytes) - pos
             IN {n \in 1..MaxFeed : n <= held} \cup ({held} \ {0})

\* The error kinds a call may store or report where the operators say Unspecified.
Kinds(e) == IF e = Unspecified THEN BodyErrors ELSE {e}

\* feed(data) with the next n bytes the transport holds; the caller keeps
\* what was not consumed.  left is len(data) - consumed.  A call that panics
\* returns nothing: the thread unwinds and the parser is used no more.
Feed ==
  /\ parser.state # "Panicked"
  /\ later < MaxLater
  /\ \E n \in FeedSizes :
       \E r \in {Parser_feed(parser, SubSeq(input.bytes, pos + 1, pos + n))} :
          IF r.p.state = "Panicked"
          THEN /\ parser' = r.p
               /\ last' = [NoCall EXCEPT !.op = "panic"]
               /\ UNCHANGED <<pos, sum, doneSeen, split, later>>
          ELSE /\ \E e \in Kinds(r.p.err) : parser' = [r.p EXCEPT !.err = e]
               /\ pos' = pos + r.consumed
               /\ sum' = IF doneSeen THEN sum ELSE sum + r.consumed
               /\ last' = [op |-> "feed", done |-> r.done, left |-> n - r.consumed,
                           result |-> Err(None)]
               /\ doneSeen' = (doneSeen \/ r.done)
               /\ split' = (split \/ (pos + r.consumed < input.msgLen))
               /\ later' = IF doneSeen THEN later + 1 ELSE later
  /\ UNCHANGED <<input, hdrs, hlast, call, resp>>

\* finish()
Finish ==
  /\ parser.state # "Panicked"
  /\ \E res \in {Parser_finish(parser)} :
       \E e \in Kinds(res.err) :
          last' = [op |-> "finish", done |-> FALSE, left |-> 0,
                   result |-> [res EXCEPT !.err = e]]
  /\ UNCHANGED <<input, parser, pos, sum, doneSeen, split, later, hdrs, hlast, call, resp>>

Next == Feed \/ Finish

Spec == Init /\ [][Next]_vars

(***************************************************************************)
(* SpecHeaders: a caller builds a Headers collection.                      *)
(***************************************************************************)
HeaderKeys == {HeaderKey_StrRef(<<"a">>), HeaderKey_Str(<<"A">>), HeaderKey_StrRef(<<"b">>)}
HeaderValues == {HeaderValue_StrRef(<<"x">>), HeaderValue_NumberUsize(100)}

HInit ==
  /\ hdrs = Headers_new
  /\ hlast = NoHeadersCall
  /\ input = Stream("req", <<>>, 0, "fuzz", None)
  /\ parser = Parser_new("req")
  /\ pos = 0
  /\ sum = 0
  /\ last = NoCall
  /\ doneSeen = FALSE
  /\ split = FALSE
  /\ later = 0
  /\ call = NoValueCall
  /\ resp = NoResponse

HeadersCall(op, k, v) == [op |-> op, key |-> k, value |-> v, before |-> hdrs]

\* headers.set(k, v)
HSet ==
  /\ \E k \in HeaderKeys, v \in HeaderValues :
       /\ Len(Headers_set(hdrs, k, v).headers) <= MaxHeaders
       /\ hdrs' = Headers_set(hdrs, k, v)
       /\ hlast' = HeadersCall("set", k, v)
  /\ UNCHANGED <<input, parser, pos, sum, last, doneSeen, split, later, call, resp>>

\* headers.append(k, v)
HAppend ==
  /\ Len(hdrs.headers) < MaxHeaders
  /\ \E k \in HeaderKeys, v \in HeaderValues :
       /\ hdrs' = Headers_append(hdrs, k, v)
       /\ hlast' = HeadersCall("append", k, v)
  /\ UNCHANGED <<input, parser, pos, sum, last, doneSeen, split, later, call, resp>>

\* headers.remove(k)
HRemove ==
  /\ \E k \in HeaderKeys :
       /\ hdrs' = Headers_remove(hdrs, k)
       /\ hlast' = HeadersCall("remove", k, HeaderValue_None)
  /\ UNCHANGED <<input, parser, pos, sum, last, doneSeen, split, later, call, resp>>

\* headers.get(k)
HGet ==
  /\ \E k \in HeaderKeys :
       /\ hlast' = HeadersCall("get", k, Headers_get(hdrs, k))
       /\ hdrs' = hdrs
  /\ UNCHANGED <<input, parser, pos, sum, last, doneSeen, split, later, call, resp>>

HNext == HSet \/ HAppend \/ HRemove \/ HGet

SpecHeaders == HInit /\ [][HNext]_vars

(***************************************************************************)
(* SpecValues: single calls of the functions of the message types.         *)
(***************************************************************************)
KeyBytes == {"a", "A", "b"}
KeyTexts == SeqsUpTo(KeyBytes, MaxKeyLen)
Keys == {HeaderKey_StrRef(t) : t \in KeyTexts} \cup {HeaderKey_Str(t) : t \in KeyTexts}

\* Texts handed to Method::parse: the names, and texts close to them.
MethodTexts ==
  LET names == {MethodSerializeArms[i][2] : i \in DOMAIN MethodSerializeArms}
  IN names
     \cup {FoldText(n) : n \in names}
     \cup {n \o <<SP>> : n \in names}
     \cup {<<SP>> \o n : n \in names}
     \cup {SubSeq(n, 1, Len(n) - 1) : n \in names}
     \cup {SubSeq(n, 2, Len(n)) : n \in names}
     \cup {n \o n : n \in names}
     \cup {<<>>, DIFFERENT}

\* Texts handed to StatusCode::parse, as sequences of characters: a character
\* is one byte, or the two bytes of a two-byte character.
RawChars == {<<"1">>, <<"2">>, <<"0">>, <<SP>>, <<"0xC3", "0xA9">>}
RECURSIVE Flatten(_)
Flatten(cs) == IF cs = <<>> THEN <<>> ELSE Head(cs) \o Flatten(Tail(cs))
StatusRaws == SeqsUpTo(RawChars, MaxRawChars)
                \cup {t \o <<c>> : t \in {<<<<"2">>, <<"0">>, <<"0">>>>, <<<<"1">>, <<"2">>, <<"3">>>>},
                                   c \in RawChars}

VInit ==
  /\ call = NoValueCall
  /\ resp = NoResponse
  /\ hdrs = Headers_new
  /\ hlast = NoHeadersCall
  /\ input = Stream("req", <<>>, 0, "fuzz", None)
  /\ parser = Parser_new("req")
  /\ pos = 0
  /\ sum = 0
  /\ last = NoCall
  /\ doneSeen = FALSE
  /\ split = FALSE
  /\ later = 0

\* a == b on two HeaderKey values
KeyEq ==
  /\ call.op = "none"
  /\ \E a \in Keys, b \in Keys :
       call' = [op |-> "HeaderKey_eq", a |-> a, b |-> b, result |-> HeaderKey_eq(a, b)]
  /\ UNCHANGED <<input, parser, pos, sum, last, doneSeen, split, later, hdrs, hlast, resp>>

\* a == b on two Header values
HeaderEq ==
  /\ call.op = "none"
  /\ \E ka \in Keys, kb \in Keys, va \in HeaderValues, vb \in HeaderValues :
       call' = [op |-> "Header_eq", a |-> Header(ka, va), b |-> Header(kb, vb),
                result |-> Header_eq(Header(ka, va), Header(kb, vb))]
  /\ UNCHANGED <<input, parser, pos, sum, last, doneSeen, split, later, hdrs, hlast, resp>>

\* Method::parse(raw_method)
MethodParse ==
  /\ call.op = "none"
  /\ \E raw \in MethodTexts :
       call' = [op |-> "Method_parse", raw |-> raw, result |-> Method_parse(raw)]
  /\ UNCHANGED <<input, parser, pos, sum, last, doneSeen, split, later, hdrs, hlast, resp>>

\* m.serialize(), and Method::parse of what it returned
MethodSerialize ==
  /\ call.op = "none"
  /\ \E m \in Methods :
       call' = [op |-> "Method_serialize", m |-> m, result |-> Method_serialize(m),
                parsed |-> Method_parse(Method_serialize(m))]
  /\ UNCHANGED <<input, parser, pos, sum, last, doneSeen, split, later, hdrs, hlast, resp>>

\* StatusCode::parse(raw)
StatusParse ==
  /\ call.op = "none"
  /\ \E cs \in StatusRaws :
       call' = [op |-> "StatusCode_parse", chars |-> cs, raw |-> Flatten(cs),
                result |-> StatusCode_parse(Flatten(cs))]
  /\ UNCHANGED <<input, parser, pos, sum, last, doneSeen, split, later, hdrs, hlast, resp>>

\* c.serialize(), and StatusCode::parse of what it returned
StatusSerialize ==
  /\ call.op = "none"
  /\ \E c \in StatusCodes :
       call' = [op |-> "StatusCode_serialize", c |-> c, result |-> StatusCode_serialize(c),
                parsed |-> StatusCode_parse(StatusCode_serialize(c))]
  /\ UNCHANGED <<input, parser, pos, sum, last, doneSeen, split, later, hdrs, hlast, resp>>

RECURSIVE Pow10(_)
Pow10(k) == IF k = 0 THEN 1 ELSE 10 * Pow10(k - 1)

\* Values whose length is asked: texts in both forms, and the numbers around
\* the powers of ten.
LengthValues ==
  {HeaderValue_StrRef(t) : t \in {<<>>, <<"x">>, s_chunked, <<"0xC3", "0xA9">>}}
  \cup {HeaderValue_Str(t) : t \in {<<>>, <<"y", "y">>}}
  \cup {HeaderValue_NumberUsize(n) :
          n \in {0} \cup {Pow10(k) : k \in 0..MaxPow} \cup {Pow10(k) - 1 : k \in 1..MaxPow}
                    \cup {Pow10(k) + 1 : k \in 1..MaxPow} \cup {80}}

\* v.length(), and v.serialize(buf)
ValueLength ==
  /\ call.op = "none"
  /\ \E v \in LengthValues, buf \in {<<>>, <<"k", ":", SP>>} :
       call' = [op |-> "HeaderValue_length", v |-> v, buf |-> buf,
                result |-> HeaderValue_length(v),
                written |-> HeaderValue_serialize(v, buf)]
  /\ UNCHANGED <<input, parser, pos, sum, last, doneSeen, split, later, hdrs, hlast, resp>>

\* a.cmp(b), and a == b
KeyCmp ==
  /\ call.op = "none"
  /\ \E a \in Keys, b \in Keys :
       call' = [op |-> "HeaderKey_cmp", a |-> a, b |-> b,
                result |-> HeaderKey_cmp(a, b), eq |-> HeaderKey_eq(a, b)]
  /\ UNCHANGED <<input, parser, pos, sum, last, doneSeen, split, later, hdrs, hlast, resp>>

\* The header collections of the messages: built by append from entries
\* with a Connection key in two spellings and another key, and with text
\* and number values.
RECURSIVE AppendAll(_, _)
AppendAll(h, es) ==
  IF es = <<>> THEN h
  ELSE AppendAll(Headers_append(h, Head(es).key, Head(es).value), Tail(es))

MsgHeaders ==
  LET keys == {HeaderKey_StrRef(s_Connection), HeaderKey_Str(FoldText(s_Connection)),
               HeaderKey_StrRef(<<"a">>)}
      values == {HeaderValue_StrRef(s_KeepAlive), HeaderValue_StrRef(FoldText(s_KeepAlive)),
                 HeaderValue_StrRef(<<"C","l","o","s","e">>), HeaderValue_NumberUsize(100)}
  IN {AppendAll(Headers_new, es) :
        es \in SeqsUpTo({Header(k, v) : k \in keys, v \in values}, MaxMsgHeaders)}
MsgPaths == {<<"/">>, s_path}
MsgBodies == {<<>>, <<"h","i">>}
MsgRequests ==
  {Request_new(s_HTTP11, m, path, h, b) :
     m \in {"GET", "POST"}, path \in MsgPaths, h \in MsgHeaders, b \in MsgBodies}

\* request.serialize()
RequestSerialize ==
  /\ call.op = "none"
  /\ \E r \in MsgRequests :
       call' = [op |-> "Request_serialize", msg |-> r, result |-> Request_serialize(r)]
  /\ UNCHANGED <<input, parser, pos, sum, last, doneSeen, split, later, hdrs, hlast, resp>>

\* response.serialize()
ResponseSerialize ==
  /\ call.op = "none"
  /\ \E sc \in {"OK", "NotFound"}, h \in MsgHeaders, b \in MsgBodies :
       LET r == Response_new(s_HTTP11, sc, h, b)
       IN call' = [op |-> "Response_serialize", msg |-> r, result |-> Response_serialize(r)]
  /\ UNCHANGED <<input, parser, pos, sum, last, doneSeen, split, later, hdrs, hlast, resp>>

\* request.is_keep_alive()
IsKeepAlive ==
  /\ call.op = "none"
  /\ \E r \in MsgRequests :
       call' = [op |-> "Request_is_keep_alive", msg |-> r,
                result |-> Request_is_keep_alive(r)]
  /\ UNCHANGED <<input, parser, pos, sum, last, doneSeen, split, later, hdrs, hlast, resp>>

\* request.set_path_ref(p) or request.set_path_owned(p), then path(),
\* serialize() and the comparison of the two forms (tests::update_path_to_own).
RequestSetPath ==
  /\ call.op = "none"
  /\ \E r \in MsgRequests, p \in MsgPaths \cup {<<"/","y">>}, form \in {"Ref", "Owned"} :
       LET after == IF form = "Ref" THEN Request_set_path_ref(r, p)
                    ELSE Request_set_path_owned(r, p)
       IN call' = [op |-> "Request_set_path", form |-> form, before |-> r, p |-> p,
                   after |-> after, path |-> StringContainer_as_ref(after.path),
                   head |-> Request_serialize(after)[1],
                   same |-> Request_eq(Request_set_path_ref(r, p),
                                       Request_set_path_owned(r, p))]
  /\ UNCHANGED <<input, parser, pos, sum, last, doneSeen, split, later, hdrs, hlast, resp>>

VNext ==
  \/ KeyEq \/ HeaderEq \/ MethodParse \/ MethodSerialize \/ StatusParse \/ StatusSerialize
  \/ ValueLength \/ KeyCmp
  \/ RequestSerialize \/ ResponseSerialize \/ IsKeepAlive \/ RequestSetPath

SpecValues == VInit /\ [][VNext]_vars

(***************************************************************************)
(* SpecResponse: a caller builds a Response and changes it.                *)
(***************************************************************************)
RespKeys ==
  {HeaderKey_StrRef(s_ContentLength), HeaderKey_Str(FoldText(s_ContentLength)),
   HeaderKey_StrRef(<<"a">>)}
RespValues == {HeaderValue_NumberUsize(7), HeaderValue_StrRef(<<"x">>)}

\* Response::new with a collection built by append, which adds an entry
\* whether or not the key is there already.
RInit ==
  /\ resp \in {Response_new(s_HTTP11, "OK", AppendAll(Headers_new, es), <<>>) :
                 es \in SeqsUpTo({Header(k, v) : k \in RespKeys, v \in RespValues},
                                 MaxMsgHeaders)}
  /\ call = NoValueCall
  /\ hdrs = Headers_new
  /\ hlast = NoHeadersCall
  /\ input = Stream("req", <<>>, 0, "fuzz", None)
  /\ parser = Parser_new("req")
  /\ pos = 0
  /\ sum = 0
  /\ last = NoCall
  /\ doneSeen = FALSE
  /\ split = FALSE
  /\ later = 0

\* response.add_header(key, value)
RAddHeader ==
  /\ \E k \in RespKeys, v \in RespValues :
       /\ Len(Response_add_header(resp, k, v).headers.headers) <= MaxHeaders
       /\ resp' = Response_add_header(resp, k, v)
       /\ call' = [op |-> "Response_add_header", key |-> k, value |-> v]
  /\ UNCHANGED <<input, parser, pos, sum, last, doneSeen, split, later, hdrs, hlast>>

\* response.set_body(n_body)
RSetBody ==
  /\ \E b \in {<<>>, <<"h">>, <<"h","i">>} :
       /\ Len(Response_set_body(resp, b).headers.headers) <= MaxHeaders
       /\ resp' = Response_set_body(resp, b)
       /\ call' = [op |-> "Response_set_body", n_body |-> b]
  /\ UNCHANGED <<input, parser, pos, sum, last, doneSeen, split, later, hdrs, hlast>>

RNext == RAddHeader \/ RSetBody

SpecResponse == RInit /\ [][RNext]_vars

(***************************************************************************)
(* Properties of the streaming parser.                                     *)
(***************************************************************************)
\* The message of the stream alone, fed to a fresh parser in one call.
OneShot == Parser_feed(Parser_new(input.kind), SubSeq(input.bytes, 1, input.msgLen)).p

\* C1: split-invariance.  For a well-formed message fed in any partition into
\* non-empty slices, once feed has reported done, finish() returns Ok with
\* the same Request/Response as feeding the message to a fresh parser in one
\* call and calling finish().
SplitInvariance ==
  (input.wellFormed /\ doneSeen) =>
     /\ Parser_finish(parser).ok
     /\ Parser_finish(OneShot).ok
     /\ Parser_finish(parser).value = Parser_finish(OneShot).value

\* A message with headers and a body was delivered in slices, at least one of
\* which ended inside the message, and finish() returned the message.
SplitInvarianceWitness ==
  /\ input.wellFormed /\ doneSeen /\ split
  /\ last.op = "finish" /\ last.result.ok
  /\ Len(last.result.value.headers.headers) > 0
  /\ Len(last.result.value.body) > 0

\* C2 as stated: every feed call has consumed <= len(data); consumed <
\* len(data) only on a call during which the message reaches Done; and the
\* consumed counts up to the first done = true add up to the message length.
ConsumedAccountingAsStated ==
  /\ [](last.left >= 0)
  /\ [][(last'.op = "feed" /\ last'.left > 0) =>
          (parser.state # "Done" /\ parser'.state = "Done")]_vars
  /\ []((input.wellFormed /\ doneSeen) => sum = input.msgLen)

\* C2 amended: every feed call has consumed <= len(data); consumed < len(data)
\* only on a call during which the message reaches Done, or on a call made
\* when the parser is already Done or Failed, which consumes nothing; the
\* consumed counts up to the first done = true add up to the message length and
\* no byte after the message is ever consumed.
ConsumedAccounting ==
  /\ [](last.left >= 0)
  /\ [][(last'.op = "feed" /\ last'.left > 0) =>
          \/ parser.state # "Done" /\ parser'.state = "Done"
          \/ Terminal(parser) /\ pos' = pos]_vars
  /\ []((input.wellFormed /\ doneSeen) => (sum = input.msgLen /\ pos = input.msgLen))

\* The call that completed the message was handed bytes of the next message and
\* left them to the caller.
ConsumedAccountingWitness ==
  /\ input.wellFormed /\ later = 0
  /\ last.op = "feed" /\ last.done /\ last.left > 0
  /\ sum = input.msgLen /\ input.msgLen < Len(input.bytes)

\* C3: idempotent terminality.  Once a feed call has returned done = true,
\* every later feed call returns (true, 0) and leaves the parser as it was, so
\* that finish() returns what it would have returned without the call.
IdempotentTerminality ==
  [][(doneSeen /\ last'.op = "feed") =>
       /\ last'.done
       /\ pos' = pos
       /\ parser' = parser
       /\ Parser_finish(parser') = Parser_finish(parser)]_vars

\* A feed call with bytes to offer was made after done = true, and finish()
\* was called after it.
IdempotentTerminalityWitness ==
  /\ later > 0 /\ doneSeen
  /\ last.op = "finish" /\ last.result.ok
  /\ pos < Len(input.bytes)

\* C5: for a well-formed message fed in any split, feed has returned done =
\* true, and the parser is Done, exactly when the last byte of the message (of
\* the blank line, of the Content-Length body, of the terminating chunk) has
\* been delivered.
DoneAtLastByte ==
  input.wellFormed =>
     /\ doneSeen <=> (pos >= input.msgLen)
     /\ (parser.state = "Done") <=> (pos >= input.msgLen)
     /\ (last.op = "feed" /\ later = 0) => (last.done <=> (pos >= input.msgLen))

\* A chunked message that also names a Content-Length, delivered in slices,
\* reached Done with the end of its terminating chunk.
DoneAtLastByteWitness ==
  /\ input.wellFormed /\ input.class = "chunked" /\ split
  /\ last.op = "feed" /\ last.done /\ later = 0
  /\ pos = input.msgLen
  /\ Headers_get(parser.headers, HeaderKey_StrRef(s_ContentLength)).form # "None"

\* C4: fail fast, fail once.  A malformed stream moves the parser to
\* Failed(e) with the ParseError of its fault by the time its bytes are fed, no
\* feed call aborts on it, the parser never leaves Failed(e), every later feed
\* returns (true, 0), and finish() returns Err(e).
FailFastFailOnce ==
  /\ [](input.class = "malformed" =>
          /\ parser.state \notin {"Done", "Panicked"}
          /\ pos >= Len(input.bytes) => parser.state = "Failed"
          /\ parser.state = "Failed" =>
               /\ parser.err \in Kinds(input.fault)
               /\ Parser_finish(parser) = Err(parser.err))
  /\ [][parser.state = "Failed" =>
          /\ parser' = parser
          /\ last'.op = "feed" => (last'.done /\ pos' = pos)
          /\ last'.op = "finish" => last'.result = Err(parser.err)]_vars

\* C6: incomplete input is an error only at finish.  While only a proper prefix
\* of a well-formed message has been fed, the parser is neither Failed nor
\* Done, no feed call has returned done = true, and finish() returns Err.
IncompleteOnlyAtFinish ==
  (input.wellFormed /\ pos < input.msgLen) =>
     /\ ~Terminal(parser)
     /\ ~doneSeen
     /\ ~Parser_finish(parser).ok
     /\ last.op = "finish" => (~last.result.ok /\ last.result.err \in ParseError)

\* finish() was called with the first line and the headers complete and part
\* of a Content-Length body fed.
IncompleteOnlyAtFinishWitness ==
  /\ input.wellFormed /\ pos < input.msgLen
  /\ parser.state = "Body" /\ parser.mode = "FixedLength"
  /\ Len(parser.body) > 0 /\ parser.remaining > 0
  /\ last.op = "finish" /\ ~last.result.ok

\* The index of the LF that ends the first line, 0 when there is none.
FirstLineEnd(bytes) == IndexOf(bytes, LF, 1)

\* The first line of the stream is followed immediately by the blank line.
ZeroHeaders(bytes) ==
  LET e == FirstLineEnd(bytes)
  IN e > 0 /\ Len(bytes) >= e + 2 /\ SubSeq(bytes, e + 1, e + 2) = CRLF

\* The bytes hold an empty line: a CRLF that directly follows a CRLF.
HasBlankLine(bytes) ==
  \E i \in 1..Len(bytes) : i + 3 <= Len(bytes) /\ SubSeq(bytes, i, i + 3) = CRLF \o CRLF

Reserialized ==
  LET msg == Parser_finish(parser).value
      out == IF input.kind = "req" THEN Request_serialize(msg) ELSE Response_serialize(msg)
  IN out[1] \o out[2]

\* C8 as stated: for a message whose header order, capitalization and
\* Content-Length are canonical, serializing what was parsed gives back the
\* original bytes, status line included.
RoundTripAsStated ==
  (input.class \in {"canonical", "reason"} /\ parser.state = "Done") =>
     Reserialized = SubSeq(input.bytes, 1, input.msgLen)

\* C8 amended: the round trip holds for a message whose header lines are
\* written `Key: Value`, whose body is not chunked, and, for a response, whose
\* reason phrase is the one StatusCode::serialize writes for its code.
RoundTrip ==
  (input.class = "canonical" /\ parser.state = "Done") =>
     Reserialized = SubSeq(input.bytes, 1, input.msgLen)

\* A response with a header and a Content-Length body was parsed from slices.
RoundTripWitness ==
  /\ input.class = "canonical" /\ input.kind = "resp" /\ parser.state = "Done"
  /\ split
  /\ Len(parser.headers.headers) > 1 /\ Len(parser.body) > 0
  /\ Reserialized = SubSeq(input.bytes, 1, input.msgLen)

\* C9: no feed call on any byte sequence aborts; each returns a (done,
\* consumed) pair, and the finish() that follows done = true returns.
NeverAborts ==
  /\ parser.state # "Panicked"
  /\ last.op # "panic"

(***************************************************************************)
(* Properties of the Headers collection.                                   *)
(***************************************************************************)
\* The positions of the entries of hs whose key equals k ignoring case.
MatchesOf(hs, k) ==
  {i \in 1..Len(hs) : caseless_match(HeaderKey_as_ref(hs[i].key), HeaderKey_as_ref(k))}

\* C10: Headers::set(k, v).  When some entry has a key equal to k ignoring
\* case, exactly the first such entry is gone, (k, v) is the last entry, every
\* other entry keeps its key, value and place in the order, and the count is
\* unchanged; when none has, (k, v) is added as the last entry and the count
\* grows by one.
SetReplacesFirst ==
  hlast.op = "set" =>
     LET before == hlast.before.headers
         after == hdrs.headers
         matches == MatchesOf(before, hlast.key)
     IN /\ Len(after) > 0
        /\ after[Len(after)] = [key |-> hlast.key, value |-> hlast.value]
        /\ IF matches = {}
           THEN /\ Headers_get_header_count(hdrs)
                     = Headers_get_header_count(hlast.before) + 1
                /\ \A j \in 1..Len(before) : after[j] = before[j]
           ELSE LET first == CHOOSE i \in matches : \A j \in matches : i <= j
                IN /\ Headers_get_header_count(hdrs)
                        = Headers_get_header_count(hlast.before)
                   /\ \A j \in 1..(Len(before) - 1) :
                         after[j] = IF j < first THEN before[j] ELSE before[j + 1]

\* set was called on a collection holding two entries whose keys equal k
\* ignoring case, written differently from k, with another entry between them.
SetReplacesFirstWitness ==
  /\ hlast.op = "set"
  /\ Len(hlast.before.headers) = 3
  /\ MatchesOf(hlast.before.headers, hlast.key) = {1, 3}
  /\ hlast.before.headers[1].key # hlast.key
  /\ Len(hdrs.headers) = 3

\* The first position of hs whose key equals k ignoring case.
FirstMatch(hs, k) == CHOOSE i \in MatchesOf(hs, k) : \A j \in MatchesOf(hs, k) : i <= j

\* C11: set then get.  After set(k, v), and after Response::add_header(k, v)
\* on a response holding the collection, get(k) returns v.
SetThenGet ==
  hlast.op = "set" =>
     /\ Headers_get(hdrs, hlast.key) = hlast.value
     /\ Headers_get(Response_add_header(
                       Response_new(s_H, "OK", hlast.before, <<>>),
                       hlast.key, hlast.value).headers, hlast.key) = hlast.value

\* C12: Headers::append(k, v) adds (k, v) as the last entry, the count grows
\* by one and every earlier entry keeps its key, value and position, whether
\* or not an entry with a key equal to k ignoring case is present.
AppendAddsLast ==
  hlast.op = "append" =>
     LET before == hlast.before.headers
         after == hdrs.headers
     IN /\ Headers_get_header_count(hdrs) = Headers_get_header_count(hlast.before) + 1
        /\ after[Len(after)] = [key |-> hlast.key, value |-> hlast.value]
        /\ \A j \in 1..Len(before) : after[j] = before[j]

\* append was called with a key that an entry already has, written differently.
AppendAddsLastWitness ==
  /\ hlast.op = "append"
  /\ MatchesOf(hlast.before.headers, hlast.key) # {}
  /\ hlast.before.headers[FirstMatch(hlast.before.headers, hlast.key)].key # hlast.key
  /\ Len(hdrs.headers) = Len(hlast.before.headers) + 1

\* C13: Headers::remove(k) deletes exactly the first entry whose key equals k
\* ignoring case and keeps the others in their order; when none matches, the
\* collection is left as it was.
RemoveDeletesFirst ==
  hlast.op = "remove" =>
     LET before == hlast.before.headers
         after == hdrs.headers
     IN IF MatchesOf(before, hlast.key) = {}
        THEN hdrs = hlast.before
        ELSE /\ Len(after) = Len(before) - 1
             /\ \A j \in 1..Len(after) :
                   after[j] = IF j < FirstMatch(before, hlast.key)
                              THEN before[j] ELSE before[j + 1]

\* remove was called on a collection with two entries matching k and another
\* entry between them.
RemoveDeletesFirstWitness ==
  /\ hlast.op = "remove"
  /\ Len(hlast.before.headers) = 3
  /\ MatchesOf(hlast.before.headers, hlast.key) = {1, 3}
  /\ Len(hdrs.headers) = 2

\* C14: Headers::get(k) returns the value of the first entry whose key equals
\* k ignoring case, None exactly when no entry has such a key, and leaves the
\* collection as it was.
GetReturnsFirst ==
  hlast.op = "get" =>
     /\ hdrs = hlast.before
     /\ (hlast.value = HeaderValue_None) <=> (MatchesOf(hdrs.headers, hlast.key) = {})
     /\ MatchesOf(hdrs.headers, hlast.key) # {} =>
           hlast.value = hdrs.headers[FirstMatch(hdrs.headers, hlast.key)].value

\* get was called with a key that two entries with different values match.
GetReturnsFirstWitness ==
  /\ hlast.op = "get"
  /\ \E i, j \in MatchesOf(hdrs.headers, hlast.key) :
        i < j /\ hdrs.headers[i].value # hdrs.headers[j].value
  /\ hlast.value # HeaderValue_None

\* The size in bytes of value v written as text.
TextSize(v) == Len(HeaderValue_serialize(v, <<>>))

\* The size of the biggest value of the collection, 0 when it is empty.
BiggestValue(hs) ==
  IF Len(hs) = 0 THEN 0
  ELSE CHOOSE n \in {TextSize(hs[i].value) : i \in 1..Len(hs)} :
         \A i \in 1..Len(hs) : TextSize(hs[i].value) <= n

\* C15: get_max_value_size() equals the size in bytes of the biggest value
\* currently in the collection, 0 for an empty collection.
MaxValueSizeExact ==
  Headers_get_max_value_size(hdrs) = BiggestValue(hdrs.headers)

\* C16: every value in the collection has a HeaderValue::length, and a size
\* as text, no larger than get_max_value_size().
MaxValueSizeBounds ==
  \A i \in 1..Len(hdrs.headers) :
     /\ HeaderValue_length(hdrs.headers[i].value) <= Headers_get_max_value_size(hdrs)
     /\ TextSize(hdrs.headers[i].value) <= Headers_get_max_value_size(hdrs)

\* The collection holds a number of three digits, put there by append, and a
\* shorter text.
MaxValueSizeBoundsWitness ==
  /\ hlast.op = "append" /\ hlast.value.form = "NumberUsize"
  /\ Headers_get_max_value_size(hdrs) = 3
  /\ Headers_get_max_value_size(hlast.before) < 3
  /\ \E i \in 1..Len(hdrs.headers) : TextSize(hdrs.headers[i].value) = 1

(***************************************************************************)
(* Properties of the message types.                                        *)
(***************************************************************************)
\* Two bytes are the same, or the upper-case and lower-case form of a letter.
SameLetter(x, y) ==
  \/ x = y
  \/ \E n \in 1..26 : {x, y} = {UpperCase[n], LowerCase[n]}

\* Two texts match case-insensitively.
SameIgnoringCase(s, t) ==
  Len(s) = Len(t) /\ \A i \in 1..Len(s) : SameLetter(s[i], t[i])

\* C17: two HeaderKey values are equal exactly when their texts match
\* case-insensitively, whatever their stored forms; the equality is
\* reflexive, symmetric and transitive.
KeyEqIgnoresCase ==
  call.op = "HeaderKey_eq" =>
     /\ call.result <=> SameIgnoringCase(call.a.text, call.b.text)
     /\ HeaderKey_eq(call.a, call.a)
     /\ call.result <=> HeaderKey_eq(call.b, call.a)
     /\ \A c \in Keys : (call.result /\ HeaderKey_eq(call.b, c)) => HeaderKey_eq(call.a, c)

\* A StrRef key and a Str key written in different case compared equal.
KeyEqIgnoresCaseWitness ==
  /\ call.op = "HeaderKey_eq"
  /\ call.a.form # call.b.form /\ call.a.text # call.b.text
  /\ Len(call.a.text) = 2
  /\ call.result

\* C18: two Header values are equal exactly when their keys match
\* case-insensitively: equal keys with different values compare equal, and
\* different keys with the same value compare unequal.
HeaderEqByKey ==
  call.op = "Header_eq" =>
     call.result <=> SameIgnoringCase(call.a.key.text, call.b.key.text)

\* Two headers with keys differing in case only and different values compared
\* equal.
HeaderEqByKeyWitness ==
  /\ call.op = "Header_eq"
  /\ call.a.key # call.b.key /\ call.a.value # call.b.value
  /\ Len(call.a.key.text) > 0
  /\ call.result

\* The eight method names.
MethodNames ==
  [OPTIONS |-> <<"O","P","T","I","O","N","S">>, GET |-> <<"G","E","T">>, HEAD |-> <<"H","E","A","D">>, POST |-> <<"P","O","S","T">>,
   PUT |-> <<"P","U","T">>, DELETE |-> <<"D","E","L","E","T","E">>, TRACE |-> <<"T","R","A","C","E">>, CONNECT |-> <<"C","O","N","N","E","C","T">>]

\* C19: Method::parse(s) is Some(m) exactly when s is the name of m, one of
\* the eight, written in upper case with nothing added, and None otherwise;
\* serialize gives each method a string of its own, and parse(serialize(m)) is
\* Some(m).
MethodParseExact ==
  /\ call.op = "Method_parse" =>
        /\ (call.result # None) <=> (\E m \in DOMAIN MethodNames : MethodNames[m] = call.raw)
        /\ call.result # None =>
              (call.result \in DOMAIN MethodNames /\ MethodNames[call.result] = call.raw)
  /\ call.op = "Method_serialize" =>
        /\ call.parsed = call.m
        /\ \A m \in Methods : m # call.m => Method_serialize(m) # call.result

\* parse was given PUT and returned it.
MethodParseExactWitness ==
  /\ call.op = "Method_parse"
  /\ call.raw = s_PUT
  /\ call.result = "PUT"

\* The first n characters of a text given as a sequence of characters.
FirstChars(cs, n) == Flatten(SubSeq(cs, 1, IF Len(cs) < n THEN Len(cs) ELSE n))

\* The StatusCodes whose serialized form starts with the three characters t.
CodesOf(t) == {c \in StatusCodes : SubSeq(StatusCode_serialize(c), 1, 3) = t}

\* C20: StatusCode::parse(serialize(c)) = Some(c); parse(raw) is the same for
\* every raw with the same first three characters, None when raw has fewer than
\* three characters, and None when those three are not the code of a
\* StatusCode.
StatusParseByCode ==
  /\ call.op = "StatusCode_serialize" => call.parsed = call.c
  /\ call.op = "StatusCode_parse" =>
        /\ call.result \in StatusCodes \cup {None}
        /\ call.result = StatusCode_parse(FirstChars(call.chars, 3))
        /\ Len(call.chars) < 3 => call.result = None
        /\ CodesOf(FirstChars(call.chars, 3)) = {} => call.result = None
        /\ call.result # None => call.result \in CodesOf(FirstChars(call.chars, 3))

\* The number of decimal digits of n.
DigitsOf(n) == CHOOSE d \in 1..(MaxPow + 2) : n < Pow10(d) /\ (d > 1 => n >= Pow10(d - 1))

\* C27: HeaderValue::length() is the number of bytes serialize appends: the
\* byte length of the text for StrRef and Str, the number of decimal digits of
\* n for NumberUsize(n).
LengthIsSerializedSize ==
  call.op = "HeaderValue_length" =>
     /\ call.result = Len(call.written) - Len(call.buf)
     /\ SubSeq(call.written, 1, Len(call.buf)) = call.buf
     /\ call.v.form = "NumberUsize" => call.result = DigitsOf(call.v.n)
     /\ call.v.form # "NumberUsize" => call.result = Len(call.v.text)

\* length() was asked of the number 10000, the first the loop divides.
LengthIsSerializedSizeWitness ==
  /\ call.op = "HeaderValue_length"
  /\ call.v.form = "NumberUsize" /\ call.v.n = 10000
  /\ call.result = 5
  /\ Len(call.buf) > 0

\* C28: StatusCode::parse returns Some or None for every text, also when byte
\* offset 3 lies inside a multi-byte character.
StatusParseTotal ==
  call.op = "StatusCode_parse" => call.result # Panic

\* C29: a == b holds exactly when a.cmp(b) is Equal.
OrderAgreesWithEq ==
  call.op = "HeaderKey_cmp" => (call.eq <=> (call.result = "Equal"))

\* The header lines of a head: one "Key: Value" CRLF line per entry, in the
\* order of the collection.
RECURSIVE HeaderLinesOf(_)
HeaderLinesOf(hs) ==
  IF hs = <<>> THEN <<>>
  ELSE HeaderLine(HeaderKey_as_ref(Head(hs).key), HeaderValue_serialize(Head(hs).value, <<>>))
         \o HeaderLinesOf(Tail(hs))

\* C21: Request::serialize and Response::serialize return (head, body): head
\* is the first line ("METHOD SP PATH SP PROTOCOL", "PROTOCOL SP CODE SP
\* REASON") and CRLF, one "Key: Value" CRLF line per header in collection
\* order, and one closing CRLF; body is the stored body byte for byte.
SerializeWireFormat ==
  /\ call.op = "Request_serialize" =>
        /\ call.result[1] =
              RequestLine(MethodNames[call.msg.method],
                          StringContainer_as_ref(call.msg.path), call.msg.protocol)
                \o HeaderLinesOf(call.msg.headers.headers) \o CRLF
        /\ call.result[2] = call.msg.body
  /\ call.op = "Response_serialize" =>
        /\ call.result[1] =
              StatusLine(call.msg.protocol, StatusCode_serialize(call.msg.status_code))
                \o HeaderLinesOf(call.msg.headers.headers) \o CRLF
        /\ call.result[2] = call.msg.body
        /\ \E t \in CodesOf(SubSeq(call.result[1], Len(call.msg.protocol) + 2,
                                     Len(call.msg.protocol) + 4)) :
              t = call.msg.status_code

\* A request with two different headers, one a number, and a body was
\* serialized.
SerializeWireFormatWitness ==
  /\ call.op = "Request_serialize"
  /\ Len(call.msg.headers.headers) = 2
  /\ call.msg.headers.headers[1].key # call.msg.headers.headers[2].key
  /\ call.msg.headers.headers[1].value.form = "NumberUsize"
  /\ call.msg.headers.headers[2].value.form = "StrRef"
  /\ call.msg.body # <<>>

\* C23: Request::is_keep_alive() is true exactly when the first header whose
\* key equals "Connection" ignoring case holds a text value equal to
\* "Keep-Alive" ignoring case; false without a Connection header, for any
\* other text, and for a number.
KeepAliveByFirstConnection ==
  call.op = "Request_is_keep_alive" =>
     LET hs == call.msg.headers.headers
         found == {i \in 1..Len(hs) : SameIgnoringCase(HeaderKey_as_ref(hs[i].key), s_Connection)}
     IN call.result <=>
          /\ found # {}
          /\ LET first == CHOOSE i \in found : \A j \in found : i <= j
             IN /\ hs[first].value.form # "NumberUsize"
                /\ SameIgnoringCase(hs[first].value.text, s_KeepAlive)

\* is_keep_alive() was true for a request whose first Connection header is
\* spelled in lower case, key and value, with a second one saying Close.
KeepAliveByFirstConnectionWitness ==
  /\ call.op = "Request_is_keep_alive"
  /\ call.result
  /\ Len(call.msg.headers.headers) = 2
  /\ call.msg.headers.headers[1] =
        Header(HeaderKey_Str(FoldText(s_Connection)), HeaderValue_StrRef(FoldText(s_KeepAlive)))
  /\ call.msg.headers.headers[2] =
        Header(HeaderKey_StrRef(s_Connection), HeaderValue_StrRef(<<"C","l","o","s","e">>))

\* C30: set_path_ref(p) and set_path_owned(p) change only the path:
\* afterwards path() returns p and serialize uses p, method, protocol, headers
\* and body are as before; and the request holding p by reference equals the
\* one that owns it.
SetPathChangesOnlyPath ==
  call.op = "Request_set_path" =>
     /\ call.path = call.p
     /\ call.head = RequestLine(MethodNames[call.before.method], call.p, call.before.protocol)
                      \o HeaderLinesOf(call.before.headers.headers) \o CRLF
     /\ call.after.method = call.before.method
     /\ call.after.protocol = call.before.protocol
     /\ call.after.headers = call.before.headers
     /\ call.after.body = call.before.body
     /\ call.same

\* set_path_owned gave a request with headers and a body another path.
SetPathChangesOnlyPathWitness ==
  /\ call.op = "Request_set_path"
  /\ call.form = "Owned"
  /\ call.p # StringContainer_as_ref(call.before.path)
  /\ call.path = call.p
  /\ call.before.headers.headers # <<>>
  /\ call.before.body # <<>>

\* C22: after Response::set_body(b), on a Response built by Response::new
\* with any Headers and after any earlier add_header and set_body calls,
\* body() is b and headers().get("Content-Length") is the number len(b).
ContentLengthTracksBody ==
  call.op = "Response_set_body" =>
     /\ resp.body = call.n_body
     /\ Headers_get(resp.headers, HeaderKey_StrRef(s_ContentLength))
          = HeaderValue_NumberUsize(Len(call.n_body))

\* The first entry of hs whose key is k ignoring case, 0 when there is none.
FirstWithKey(hs, k) ==
  LET found == {i \in 1..Len(hs) : SameIgnoringCase(HeaderKey_as_ref(hs[i].key), k)}
  IN IF found = {} THEN 0 ELSE CHOOSE i \in found : \A j \in found : i <= j

\* A text of decimal digits, one at least.
IsDecimal(t) == Len(t) > 0 /\ \A i \in 1..Len(t) : \E d \in 1..10 : t[i] = Digits[d]

\* The body mode the headers call for.
ExpectedMode(hs) ==
  LET te == FirstWithKey(hs, s_TransferEncoding)
      cl == FirstWithKey(hs, s_ContentLength)
  IN IF te # 0 /\ SameIgnoringCase(hs[te].value.text, s_chunked) THEN "Chunked"
     ELSE IF cl # 0 /\ IsDecimal(hs[cl].value.text) THEN "FixedLength"
     ELSE "None"

HeadersComplete(p) == p.state \in {"Body", "Done"}

\* C24: body mode selection.  Once the blank line that ends the headers is
\* processed the mode is Chunked if a Transfer-Encoding header matches
\* "chunked" ignoring case (a Content-Length header beside it changes nothing,
\* and Response::is_chunked says the same of the headers), otherwise
\* FixedLength(n) if Content-Length is a non-negative integer n, otherwise
\* None; in mode None the feed call that processed the blank line reports done.
BodyModeSelection ==
  /\ [](HeadersComplete(parser) =>
          /\ parser.mode = ExpectedMode(parser.headers.headers)
          /\ (parser.mode = "Chunked") <=>
                Response_is_chunked(Response_new(parser.protocol, "OK", parser.headers, <<>>))
          /\ parser.mode = "FixedLength" =>
                Len(parser.body) + parser.remaining =
                  ParseUsize(parser.headers.headers[
                    FirstWithKey(parser.headers.headers, s_ContentLength)].value.text)
          /\ parser.mode = "None" => parser.state = "Done")
  /\ [][(~HeadersComplete(parser) /\ HeadersComplete(parser') /\ parser'.mode = "None") =>
          (last'.op = "feed" /\ last'.done /\ parser'.state = "Done"
           /\ parser'.body = <<>>)]_vars

\* Headers with a Content-Length and, after it, Transfer-Encoding: Chunked
\* were completed and the body was decoded as chunks.
BodyModeSelectionWitness ==
  /\ parser.state = "Done" /\ parser.mode = "Chunked"
  /\ FirstWithKey(parser.headers.headers, s_ContentLength) = 1
  /\ FirstWithKey(parser.headers.headers, s_TransferEncoding) = 2
  /\ parser.headers.headers[2].value.text # s_chunked

\* The message whose body is the chunks of cs.
ChunkedMessageOf(kind, cs) ==
  Message(IF kind = "req" THEN RequestLine(s_GET, s_path, s_H) ELSE StatusLine(s_H, s_200_OK),
          <<>>, ChunkedBodyOf(cs))

RECURSIVE ChunkBodies(_)
ChunkBodies(cs) == IF cs = <<>> THEN <<>> ELSE Head(cs).body \o ChunkBodies(Tail(cs))

\* C25: chunked decoding.  For a body of chunks "<hex-size> CRLF <size bytes>
\* CRLF" ended by a zero-size chunk, fed in any split, the parser never fails,
\* is Done exactly when the terminating chunk has been consumed, and the
\* finished message's body is the chunk bodies in order; a size that is not
\* hex, or chunk data not followed by CRLF, ends in the terminal failure.
ChunkedDecoding ==
  /\ \A cs \in ChunkLists :
        SubSeq(input.bytes, 1, input.msgLen) = ChunkedMessageOf(input.kind, cs) =>
           /\ parser.state # "Failed"
           /\ (parser.state = "Done") <=> (pos = input.msgLen)
           /\ parser.state = "Done" =>
                 /\ Parser_finish(parser).ok
                 /\ Parser_finish(parser).value.body = ChunkBodies(cs)
  /\ (input.class = "malformed" /\ input.fault = Unspecified /\ pos = Len(input.bytes)) =>
        (parser.state = "Failed" /\ ~Parser_finish(parser).ok)

\* The two chunks of 10 and 16 bytes were decoded from a stream fed in
\* several slices.
ChunkedDecodingWitness ==
  /\ input.class = "chunked" /\ split
  /\ parser.state = "Done"
  /\ parser.body = Data(10) \o Data(16)
  /\ pos = input.msgLen

\* C26: after every feed call 0 <= consumed_cursor <= scan_cursor <= buffer
\* length, and no feed call moves a cursor back.
CursorsOnlyForward ==
  /\ [](/\ 0 <= parser.consumed_cursor
        /\ parser.consumed_cursor <= parser.scan_cursor
        /\ parser.scan_cursor <= Len(parser.buffer))
  /\ [][/\ parser'.consumed_cursor >= parser.consumed_cursor
        /\ parser'.scan_cursor >= parser.scan_cursor]_vars

\* A feed call ended inside a token, after completed tokens.
CursorsOnlyForwardWitness ==
  /\ last.op = "feed" /\ split
  /\ 0 < parser.consumed_cursor
  /\ parser.consumed_cursor < parser.scan_cursor
  /\ parser.scan_cursor = Len(parser.buffer)

====
